---- MODULE Spec2Model ----
(***************************************************************************)
(* Model of the event platform's client-side state logic:                  *)
(*   - the cart store (hooks/useCart.ts) with its local-storage mirror and *)
(*     the cart panel's item controls (components/Cart.tsx);               *)
(*   - the registration workflow of the event card                         *)
(*     (components/PaymentModal.tsx, EventCard) and of the event detail    *)
(*     page (components/EventDetailPage.tsx);                              *)
(*   - the admin panel of the home page (components/AdminPanel.tsx).       *)
(* Spec        drives one instance of the hook through all its operations. *)
(* SessionSpec is the hook as an event card and the cart panel use it.     *)
(* UiSpec      adds the cart panel's delayed removal.                      *)
(* RegSpec     is the registration workflow.                               *)
(* ToggleSpec  is the event card clicked again only after each call has    *)
(*             returned, on a store that accepts every request.            *)
(* OverlapSpec is the same card clicked whenever its button is enabled.    *)
(* ProfileSpec applies checkProfileComplete to every answer of the profile *)
(*             select.                                                     *)
(* FavSpec     is the detail page's effect queries and favorite button.    *)
(* PageSpec    is the whole detail page (EventDetailPage.tsx).             *)
(* PaySpec     is the cart panel's checkout (Cart.tsx, PaymentModal.tsx).  *)
(* QrSpec      is the detail page's registration through the payment QR.   *)
(* CardsSpec   is two event cards of one list, each with its own instance. *)
(* AdminSpec   is the admin panel for admin and non-admin accounts.        *)
(***************************************************************************)
EXTENDS Integers, Sequences, FiniteSets, Bags, TLC

\* ---------------------------------------------------------------- bounds
MaxQty == 2        \* largest quantity an item is driven to
MaxTimers == 1     \* pending 300 ms removal timers of the cart panel
MaxCalls == 2      \* handler invocations suspended at an await at one time
MaxRows == 2       \* registration rows of one (event, user) pair
MaxTurns == 3      \* register clicks of a counted sequence
MaxModals == 2     \* PaymentModal instances mounted between two page loads
MaxPayTimers == 1  \* pending 2 s timers of completed payments

\* ------------------------------------------------------------- constants
DefaultPrice == 100             \* addToCart(event, price = 100)

Ids == {"A", "B"}               \* event ids
Prices == {50, DefaultPrice}    \* unit prices handed to addToCart
Stores == {"card", "card2", "panel"}     \* components calling useCart(): each call of
                                \* the hook owns its own useState
CardStore == "card"             \* the instance of an EventCard
PanelStore == "panel"           \* the instance of the Cart component
OtherCard == "card2"            \* the instance of a second EventCard of the list
OtherEvent == "B"               \* the event the second card shows
NoEvent == "-"

VARIABLES
  items,      \* items[s]: the useState value `items` of hook instance s
  mounted,    \* mounted[s]: instance s has run its state initialiser
  storage,    \* the value stored under local-storage key 'cart'
  timers,     \* pending setTimeout callbacks of CartItem.handleRemove
  cardEvent,  \* the `event` prop of the mounted EventCard
  last,       \* the call that produced the current state
  \* registration workflow
  user,
  rows,
  isRegistered,
  registering,
  showPaymentQR,
  calls,
  finished,
  turn,       \* ordinal of the next register click of a counted sequence of
              \* clicks on the event card, 0 where clicks are not counted
  \* event detail page
  loading,
  event,
  isFavorite,
  favRows,
  registrationCount,
  \* checkout of the cart panel
  isCartOpen,     \* HomePage: the `isOpen` prop of Cart
  showPayment,    \* Cart: the PaymentModal is mounted
  paymentStatus,  \* of the mounted PaymentModal
  razorpayLoaded, \* of the mounted PaymentModal
  gen,            \* the mounted PaymentModal is the gen-th since the page load
  widget,         \* the instance whose checkout widget is open, 0 if closed
  payTimers,      \* instances whose 2 s timer of a completed payment is pending
  \* admin panel
  isAdminOpen,    \* HomePage: the `isOpen` prop of AdminPanel
  activeTab,
  listed,         \* listed[t]: the ids of the rows in the state `clubs` / `events`
  remote,         \* remote[t]: the ids of the rows of the remote table t
  adminLoading,   \* AdminPanel: `loading`
  editing,        \* editing[t]: `editingClub` / `editingEvent`, as the row's id
  showForm,       \* showForm[t]: `showClubForm` / `showEventForm`
  adminCalls,     \* requests of the panel's handlers awaiting their answer
  prompt          \* the answer of the last confirm() dialog

cartVars == <<items, mounted, storage, timers, cardEvent, last>>
regVars == <<user, rows, isRegistered, registering, showPaymentQR, calls, finished>>
vars == <<items, mounted, storage, timers, cardEvent, last,
          user, rows, isRegistered, registering, showPaymentQR, calls, finished,
          turn, loading, event, isFavorite, favRows, registrationCount,
          isCartOpen, showPayment, paymentStatus, razorpayLoaded, gen, widget,
          payTimers,
          isAdminOpen, activeTab, listed, remote, adminLoading, editing, showForm,
          adminCalls, prompt>>
pageVars == <<loading, event, isFavorite, favRows, registrationCount>>
payVars == <<isCartOpen, showPayment, paymentStatus, razorpayLoaded, gen, widget,
             payTimers>>

\* what the cart's operations leave alone, and what the registration
\* workflow's handlers leave alone
adminVars == <<isAdminOpen, activeTab, listed, remote, adminLoading, editing, showForm,
               adminCalls, prompt>>
outsideCart == <<regVars, turn, pageVars, payVars, adminVars>>
outsideReg == <<cartVars, pageVars, payVars, adminVars>>
outsidePage == <<cartVars, payVars, adminVars>>
outsidePay == <<regVars, turn, pageVars, adminVars>>
outsideAdmin == <<cartVars, rows, isRegistered, registering, showPaymentQR, calls, finished,
                  turn, pageVars, payVars>>

\* ------------------------------------------------------------ cart items
\* interface CartItem: id, price, quantity (title, image_url, venue and
\* schedule are display metadata copied from the event and never read back
\* by the store).
CartItem(id, price, quantity) == [id |-> id, price |-> price, quantity |-> quantity]

\* prevItems.find(item => item.id === id) / items.some(item => item.id === id)
IsInCart(its, id) == \E i \in 1..Len(its) : its[i].id = id

\* items.filter(item => item.id !== id)
RECURSIVE FilterOut(_, _)
FilterOut(its, id) ==
  IF its = <<>> THEN <<>>
  ELSE IF Head(its).id # id THEN <<Head(its)>> \o FilterOut(Tail(its), id)
       ELSE FilterOut(Tail(its), id)

\* the updater passed to setItems in addToCart
AddItemsAlwaysAppend(prevItems, id, price) ==
  Append(prevItems, CartItem(id, price, 1))

AddItems(prevItems, id, price) ==
  IF IsInCart(prevItems, id)
  THEN [i \in 1..Len(prevItems) |->
          IF prevItems[i].id = id
          THEN [prevItems[i] EXCEPT !.quantity = prevItems[i].quantity + 1]
          ELSE prevItems[i]]
  ELSE Append(prevItems, CartItem(id, price, 1))

\* the value removeFromCart hands to setItems, computed from the `items` of
\* the render the function was created in
RemoveItems(closureItems, id) == FilterOut(closureItems, id)

\* the value updateQuantity hands to setItems
UpdateItemsAll(closureItems, id, quantity) ==
  IF quantity <= 0
  THEN RemoveItems(closureItems, id)
  ELSE [i \in 1..Len(closureItems) |-> [closureItems[i] EXCEPT !.quantity = quantity]]

UpdateItemsNoRemove(closureItems, id, quantity) ==
  [i \in 1..Len(closureItems) |->
     IF closureItems[i].id = id
     THEN [closureItems[i] EXCEPT !.quantity = quantity]
     ELSE closureItems[i]]

UpdateItems(closureItems, id, quantity) ==
  IF quantity <= 0
  THEN RemoveItems(closureItems, id)
  ELSE [i \in 1..Len(closureItems) |->
          IF closureItems[i].id = id
          THEN [closureItems[i] EXCEPT !.quantity = quantity]
          ELSE closureItems[i]]

\* the value clearCart hands to setItems
ClearedItemsKeep(closureItems) == closureItems

ClearedItems(closureItems) == <<>>

\* items.reduce((total, item) => total + item.quantity, 0)
RECURSIVE ReduceQuantity(_, _)
ReduceQuantity(its, total) ==
  IF its = <<>> THEN total
  ELSE ReduceQuantity(Tail(its), total + Head(its).quantity)

GetTotalItemsCount(its) == Len(its)

GetTotalItems(its) == ReduceQuantity(its, 0)

\* items.reduce((total, item) => total + (item.price * item.quantity), 0)
RECURSIVE ReducePrice(_, _)
ReducePrice(its, total) ==
  IF its = <<>> THEN total
  ELSE ReducePrice(Tail(its), total + (Head(its).price * Head(its).quantity))

GetTotalPrice(its) == ReducePrice(its, 0)

\* --------------------------------------------------------- local storage
\* A stored value is text.  JSON.stringify(items) is modelled as the list of
\* the items' field values in key order; text that is not JSON makes
\* JSON.parse throw; getItem of an absent key returns null.
NoSnapshot == [kind |-> "null", body |-> <<>>]
Garbage == [kind |-> "garbage", body |-> <<>>]

Stringify(its) ==
  [kind |-> "json",
   body |-> [i \in 1..Len(its) |-> <<its[i].id, its[i].price, its[i].quantity>>]]

\* JSON.parse of a text written by Stringify
Parse(text) ==
  [i \in 1..Len(text.body) |-> CartItem(text.body[i][1], text.body[i][2], text.body[i][3])]

\* the useState initialiser: savedCart ? JSON.parse(savedCart) : [], and []
\* when JSON.parse throws
InitialItemsEmpty(savedCart) == <<>>

InitialItems(savedCart) ==
  IF savedCart.kind = "null" THEN <<>>
  ELSE IF savedCart.kind = "json" THEN Parse(savedCart)
  ELSE <<>>

\* the persistence effect, run after the render that follows a change of
\* `items`: setItem only when items.length > 0; a throwing setItem is caught
EffectAlwaysWrites(its, writeOk) ==
  IF writeOk THEN Stringify(its) ELSE storage

EffectSkipsSingle(its, writeOk) ==
  IF Len(its) > 1 /\ writeOk THEN Stringify(its) ELSE storage

EffectStorage(its, writeOk) ==
  IF Len(its) > 0 /\ writeOk THEN Stringify(its) ELSE storage

WriteOutcome(its, writeOk) ==
  IF Len(its) = 0 THEN "skipped" ELSE IF writeOk THEN "ok" ELSE "failed"

Call(op, s, id, n, price, write) ==
  [op |-> op, store |-> s, id |-> id, n |-> n, price |-> price, write |-> write]

\* setItems(newItems) in instance s, the re-render and the persistence effect
CommitDropsUnsaved(s, newItems, writeOk) ==
  /\ items' = [items EXCEPT ![s] = IF Len(newItems) > 0 /\ ~writeOk THEN items[s] ELSE newItems]
  /\ storage' = EffectStorage(newItems, writeOk)

Commit(s, newItems, writeOk) ==
  /\ items' = [items EXCEPT ![s] = newItems]
  /\ storage' = EffectStorage(newItems, writeOk)


\* ------------------------------------------------------ cart store steps
\* A component calling useCart() mounts: the initialiser reads the snapshot,
\* the first render follows and the persistence effect runs.  An EventCard is
\* mounted with its event.
Mount(s, e) ==
  /\ ~mounted[s]
  /\ \E writeOk \in BOOLEAN :
       /\ Commit(s, InitialItems(storage), writeOk)
       /\ last' = Call("mount", s, e, 0, 0, WriteOutcome(InitialItems(storage), writeOk))
  /\ mounted' = [mounted EXCEPT ![s] = TRUE]
  /\ cardEvent' = IF s = CardStore THEN e ELSE cardEvent
  /\ UNCHANGED timers
  /\ UNCHANGED outsideCart

\* The page is reloaded: every instance and every pending timer is gone;
\* local storage stays.
Reload ==
  /\ \E s \in Stores : mounted[s]
  /\ mounted' = [s \in Stores |-> FALSE]
  /\ items' = [s \in Stores |-> <<>>]
  /\ timers' = {}
  /\ cardEvent' = NoEvent
  /\ last' = Call("reload", "-", "-", 0, 0, "skipped")
  /\ UNCHANGED storage
  /\ UNCHANGED outsideCart

\* addToCart(event, price): a functional update of the current state
AddToCart(s, id, price) ==
  /\ mounted[s]
  /\ \A i \in 1..Len(items[s]) : items[s][i].id = id => items[s][i].quantity < MaxQty
  /\ \E writeOk \in BOOLEAN :
       /\ Commit(s, AddItems(items[s], id, price), writeOk)
       /\ last' = Call("addToCart", s, id, 0, price,
                       WriteOutcome(AddItems(items[s], id, price), writeOk))
  /\ UNCHANGED <<mounted, timers, cardEvent>>
  /\ UNCHANGED outsideCart

\* removeFromCart(id) called through the function of the current render
RemoveFromCart(s, id) ==
  /\ mounted[s]
  /\ \E writeOk \in BOOLEAN :
       /\ Commit(s, RemoveItems(items[s], id), writeOk)
       /\ last' = Call("removeFromCart", s, id, 0, 0,
                       WriteOutcome(RemoveItems(items[s], id), writeOk))
  /\ UNCHANGED <<mounted, timers, cardEvent>>
  /\ UNCHANGED outsideCart

\* updateQuantity(id, quantity) called through the function of the current
\* render
UpdateQuantity(s, id, quantity) ==
  /\ mounted[s]
  /\ \E writeOk \in BOOLEAN :
       /\ Commit(s, UpdateItems(items[s], id, quantity), writeOk)
       /\ last' = Call("updateQuantity", s, id, quantity, 0,
                       WriteOutcome(UpdateItems(items[s], id, quantity), writeOk))
  /\ UNCHANGED <<mounted, timers, cardEvent>>
  /\ UNCHANGED outsideCart

\* clearCart()
ClearCart(s) ==
  /\ mounted[s]
  /\ \E writeOk \in BOOLEAN :
       /\ Commit(s, ClearedItems(items[s]), writeOk)
       /\ last' = Call("clearCart", s, "-", 0, 0,
                       WriteOutcome(ClearedItems(items[s]), writeOk))
  /\ UNCHANGED <<mounted, timers, cardEvent>>
  /\ UNCHANGED outsideCart

\* EventCard.handleAddToCart: addToCart(event, 100); the button is rendered
\* only while !isInCart(event.id)
HandleAddToCart ==
  /\ mounted[CardStore]
  /\ ~IsInCart(items[CardStore], cardEvent)
  /\ AddToCart(CardStore, cardEvent, DefaultPrice)

\* the same handler of the second card
OtherHandleAddToCart ==
  /\ mounted[OtherCard]
  /\ ~IsInCart(items[OtherCard], OtherEvent)
  /\ AddToCart(OtherCard, OtherEvent, DefaultPrice)

\* CartItem.handleQuantityChange(newQuantity) of the cart panel: the minus
\* and plus buttons of a rendered item
HandleQuantityChange(id, newQuantity) ==
  /\ mounted[PanelStore]
  /\ IsInCart(items[PanelStore], id)
  /\ IF newQuantity < 1
     THEN /\ last' = Call("handleQuantityChange", PanelStore, id, newQuantity, 0, "skipped")
          /\ UNCHANGED <<items, storage>>
     ELSE \E writeOk \in BOOLEAN :
            /\ Commit(PanelStore, UpdateItems(items[PanelStore], id, newQuantity), writeOk)
            /\ last' = Call("handleQuantityChange", PanelStore, id, newQuantity, 0,
                            WriteOutcome(UpdateItems(items[PanelStore], id, newQuantity), writeOk))
  /\ UNCHANGED <<mounted, timers, cardEvent>>
  /\ UNCHANGED outsideCart

\* CartItem.handleRemove of the cart panel: setTimeout(() => onRemove(item.id),
\* 300) keeps the removeFromCart of the render in which the click happened,
\* and with it that render's `items`
HandleRemove(id) ==
  /\ mounted[PanelStore]
  /\ IsInCart(items[PanelStore], id)
  /\ Cardinality(timers) < MaxTimers
  /\ timers' = timers \cup {[id |-> id, closure |-> items[PanelStore]]}
  /\ last' = Call("handleRemove", PanelStore, id, 0, 0, "skipped")
  /\ UNCHANGED <<items, mounted, storage, cardEvent>>
  /\ UNCHANGED outsideCart

\* the 300 ms timer fires: removeFromCart(id) of the captured render
RemoveTimer(t) ==
  /\ mounted[PanelStore]
  /\ \E writeOk \in BOOLEAN :
       /\ Commit(PanelStore, RemoveItems(t.closure, t.id), writeOk)
       /\ last' = Call("removeFromCart", PanelStore, t.id, 0, 0,
                       WriteOutcome(RemoveItems(t.closure, t.id), writeOk))
  /\ timers' = timers \ {t}
  /\ UNCHANGED <<mounted, cardEvent>>
  /\ UNCHANGED outsideCart

CartInit ==
  /\ items = [s \in Stores |-> <<>>]
  /\ mounted = [s \in Stores |-> FALSE]
  /\ storage \in {NoSnapshot, Garbage}
  /\ timers = {}
  /\ cardEvent = NoEvent
  /\ last = Call("init", "-", "-", 0, 0, "skipped")

\* The contract of the hook: one instance driven through every operation
\* it returns, with every input.
Next ==
  \/ Mount(PanelStore, NoEvent)
  \/ Reload
  \/ \E id \in Ids, price \in Prices : AddToCart(PanelStore, id, price)
  \/ \E id \in Ids : RemoveFromCart(PanelStore, id)
  \/ \E id \in Ids, quantity \in -1..MaxQty : UpdateQuantity(PanelStore, id, quantity)
  \/ ClearCart(PanelStore)
  \/ \E id \in Ids, newQuantity \in 0..MaxQty : HandleQuantityChange(id, newQuantity)

\* The hook as the components use it: an event card and the cart panel, each
\* with its own instance, and the controls they render.
SessionNext ==
  \/ \E e \in Ids : Mount(CardStore, e)
  \/ Mount(PanelStore, NoEvent)
  \/ Reload
  \/ HandleAddToCart
  \/ \E id \in Ids, newQuantity \in 0..MaxQty : HandleQuantityChange(id, newQuantity)
  \/ ClearCart(PanelStore)

\* The same with the cart panel's delayed removal.
UiNext ==
  \/ \E e \in Ids : Mount(CardStore, e)
  \/ Mount(PanelStore, NoEvent)
  \/ Reload
  \/ HandleAddToCart
  \/ \E id \in Ids, newQuantity \in 0..MaxQty : HandleQuantityChange(id, newQuantity)
  \/ ClearCart(PanelStore)
  \/ \E id \in Ids : HandleRemove(id)
  \/ \E t \in timers : RemoveTimer(t)

\* Two event cards of the home page's list, each with its own instance.
CardsNext ==
  \/ \E e \in Ids : Mount(CardStore, e)
  \/ Mount(OtherCard, OtherEvent)
  \/ Reload
  \/ HandleAddToCart
  \/ OtherHandleAddToCart

\* ------------------------------------------------ registration workflow
\* Two components register the signed-in user for one event: the event card
\* of the home page and the event detail page (each open in its own tab, on
\* the same session and the same remote store).
NoUser == "none"
Users == {"u1"}
Comps == {"card", "page"}

\* the answer of supabase.from('profiles').select('*').eq('id', user.id).single()
ProfileAnswer(status, name, phone, rollno, branch) ==
  [status |-> status, name |-> name, phone |-> phone, rollno |-> rollno, branch |-> branch]

NoAnswer == ProfileAnswer("none", "", "", "", "")

ProfileAnswers ==
  {ProfileAnswer("error", "", "", "", ""),      \* the request failed
   ProfileAnswer("norow", "", "", "", ""),      \* no profile row
   ProfileAnswer("row", "n", "p", "r", "b"),
   ProfileAnswer("row", "", "p", "r", "b"),
   ProfileAnswer("row", "n", "p", "r", "")}

\* a column of the profile row: null, the empty string or some text
Null == "<null>"
FieldValues == {Null, "", "v"}

\* every answer of the select: it failed, it threw, no row, or a row
AllProfileAnswers ==
  {ProfileAnswer(status, "", "", "", "") : status \in {"error", "thrown", "norow"}} \cup
  {ProfileAnswer("row", name, phone, rollno, branch) :
     name \in FieldValues, phone \in FieldValues,
     rollno \in FieldValues, branch \in FieldValues}

\* the truthiness of a column in `profile.name && profile.phone && ...`
TruthyUnlessNull(v) == v # Null

Truthy(v) == v # Null /\ v # ""

\* checkProfileComplete, once the select has answered
CheckProfileCompleteIgnoresBranch(u, answer) ==
  IF u = NoUser THEN FALSE
  ELSE IF answer.status # "row" THEN FALSE
  ELSE Truthy(answer.name) /\ Truthy(answer.phone) /\ Truthy(answer.rollno)

CheckProfileComplete(u, answer) ==
  IF u = NoUser THEN FALSE
  ELSE IF answer.status # "row" THEN FALSE
  ELSE /\ Truthy(answer.name) /\ Truthy(answer.phone)
       /\ Truthy(answer.rollno) /\ Truthy(answer.branch)

\* One invocation of a handler: the component, the handler, the await it is
\* suspended at, the `user` and `isRegistered` (for toggleFavorite:
\* `isFavorite`) of the render it was created in, the notifications it has
\* emitted and the requests it has sent.
Invocation(c, op, pc, u, isReg, answer, toasts, sent) ==
  [comp |-> c, op |-> op, pc |-> pc, user |-> u, isReg |-> isReg,
   answer |-> answer, toasts |-> toasts, sent |-> sent]

\* `calls` is the bag of the suspended invocations
Suspended == BagToSet(calls)
Suspend(call) == calls (+) SetToBag({call})
Resume(call) == calls (-) SetToBag({call})

\* an invocation returns: it leaves `calls` and is kept as the last finished one
Done(call, toasts) == <<[call EXCEPT !.pc = "done", !.toasts = call.toasts \o toasts]>>

Return(call, toasts) ==
  /\ calls' = Resume(call)
  /\ finished' = Done(call, toasts)

\* an invocation returns through its catch block
Caught(call, toasts) == <<[call EXCEPT !.pc = "caught", !.toasts = call.toasts \o toasts]>>

Catch(call, toasts) ==
  /\ calls' = Resume(call)
  /\ finished' = Caught(call, toasts)

\* the event detail page renders its controls once the event has loaded
\* (`if (loading)` and `if (!event)` return early); the card always does
PageEvent == "A"
Rendered(c) == c = "page" => (~loading /\ event = PageEvent)

\* the error notification of the catch block of handleRegister
ErrorTitle(c) == IF c = "card" THEN "Registration Failed" ELSE "Error"

\* a click on the card's register button, where clicks are counted
Counted(c, n) == IF n > 0 /\ c = "card" THEN n + 1 ELSE n

\* handleRegister, from the click to the first await
HandleRegisterNoAuthCheck(c) ==
  /\ Rendered(c)
  /\ ~registering[c]
  /\ IF user = NoUser
     THEN /\ finished' = <<Invocation(c, "register", "done", user, isRegistered[c],
                                      NoAnswer, <<"Profile Incomplete">>, <<>>)>>
          /\ UNCHANGED calls
     ELSE /\ BagCardinality(calls) < MaxCalls
          /\ calls' = Suspend(Invocation(c, "register", "profile", user, isRegistered[c],
                                          NoAnswer, <<>>, <<"profiles.select">>))
          /\ UNCHANGED finished
  /\ turn' = Counted(c, turn)
  /\ UNCHANGED <<user, rows, isRegistered, registering, showPaymentQR>>
  /\ UNCHANGED outsideReg

HandleRegister(c) ==
  /\ Rendered(c)
  /\ ~registering[c]
  /\ IF user = NoUser
     THEN /\ finished' = <<Invocation(c, "register", "done", user, isRegistered[c],
                                      NoAnswer, <<"Login Required">>, <<>>)>>
          /\ UNCHANGED calls
     ELSE /\ BagCardinality(calls) < MaxCalls
          /\ calls' = Suspend(Invocation(c, "register", "profile", user, isRegistered[c],
                                          NoAnswer, <<>>, <<"profiles.select">>))
          /\ UNCHANGED finished
  /\ turn' = Counted(c, turn)
  /\ UNCHANGED <<user, rows, isRegistered, registering, showPaymentQR>>
  /\ UNCHANGED outsideReg

\* the profile select answers: handleRegister runs on to its next await
ProfileAnswered(call, answer) ==
  /\ call.op = "register" /\ call.pc = "profile"
  /\ IF ~CheckProfileComplete(call.user, answer)
     THEN /\ calls' = Resume(call)
          /\ finished' = Done([call EXCEPT !.answer = answer], <<"Profile Incomplete">>)
          /\ UNCHANGED registering
     ELSE /\ registering' = [registering EXCEPT ![call.comp] = TRUE]
          /\ calls' = Resume(call) (+) SetToBag(
               {IF call.isReg
                THEN [call EXCEPT !.pc = "delete", !.answer = answer,
                                  !.sent = call.sent \o <<"registrations.delete">>]
                ELSE IF call.comp = "card"
                THEN [call EXCEPT !.pc = "insert", !.answer = answer,
                                  !.sent = call.sent \o <<"registrations.insert">>]
                ELSE [call EXCEPT !.pc = "qr", !.answer = answer]})
          /\ UNCHANGED finished
  /\ UNCHANGED <<user, rows, isRegistered, showPaymentQR>>
  /\ UNCHANGED <<turn, outsideReg>>

\* the delete of the (event, user) rows answers
DeleteAnswered(call, ok) ==
  /\ call.op = "register" /\ call.pc = "delete"
  /\ rows' = IF ok THEN 0 ELSE rows
  /\ isRegistered' = IF ok THEN [isRegistered EXCEPT ![call.comp] = FALSE] ELSE isRegistered
  /\ registering' = [registering EXCEPT ![call.comp] = FALSE]
  /\ IF ok THEN Return(call, <<"Unregistered">>) ELSE Catch(call, <<ErrorTitle(call.comp)>>)
  /\ UNCHANGED <<user, showPaymentQR>>
  /\ UNCHANGED <<turn, outsideReg>>

\* the insert of the event card answers
InsertAnsweredKeepsFlag(call, ok) ==
  /\ call.op = "register" /\ call.pc = "insert"
  /\ ok => rows < MaxRows
  /\ rows' = IF ok THEN rows + 1 ELSE rows
  /\ isRegistered' = isRegistered
  /\ registering' = [registering EXCEPT ![call.comp] = FALSE]
  /\ IF ok THEN Return(call, <<"Registration Successful!">>)
     ELSE Catch(call, <<ErrorTitle(call.comp)>>)
  /\ UNCHANGED <<user, showPaymentQR>>
  /\ UNCHANGED <<turn, outsideReg>>

InsertAnswered(call, ok) ==
  /\ call.op = "register" /\ call.pc = "insert"
  /\ ok => rows < MaxRows
  /\ rows' = IF ok THEN rows + 1 ELSE rows
  /\ isRegistered' = IF ok THEN [isRegistered EXCEPT ![call.comp] = TRUE] ELSE isRegistered
  /\ registering' = [registering EXCEPT ![call.comp] = FALSE]
  /\ IF ok THEN Return(call, <<"Registration Successful!">>)
     ELSE Catch(call, <<ErrorTitle(call.comp)>>)
  /\ UNCHANGED <<user, showPaymentQR>>
  /\ UNCHANGED <<turn, outsideReg>>

\* generatePaymentQR of the detail page: QRCode.toDataURL has finished
QrGenerated(call, ok) ==
  /\ call.op = "register" /\ call.pc = "qr"
  /\ showPaymentQR' = IF ok THEN TRUE ELSE showPaymentQR
  /\ registering' = [registering EXCEPT ![call.comp] = FALSE]
  /\ IF ok THEN Return(call, <<>>) ELSE Catch(call, <<"Error">>)
  /\ UNCHANGED <<user, rows, isRegistered>>
  /\ UNCHANGED <<turn, outsideReg>>

\* confirmPayment of the detail page: the 'Payment Done' button of the modal
ConfirmPayment ==
  /\ Rendered("page")
  /\ showPaymentQR
  /\ IF user = NoUser
     THEN /\ finished' = <<Invocation("page", "confirmPayment", "done", user,
                                      isRegistered["page"], NoAnswer, <<>>, <<>>)>>
          /\ UNCHANGED calls
     ELSE /\ BagCardinality(calls) < MaxCalls
          /\ calls' = Suspend(Invocation("page", "confirmPayment", "insert", user,
                                          isRegistered["page"], NoAnswer, <<>>,
                                          <<"registrations.insert">>))
          /\ UNCHANGED finished
  /\ UNCHANGED <<user, rows, isRegistered, registering, showPaymentQR>>
  /\ UNCHANGED <<turn, outsideReg>>

\* the insert of confirmPayment answers
ConfirmAnsweredAlwaysCloses(call, ok) ==
  /\ call.op = "confirmPayment" /\ call.pc = "insert"
  /\ ok => rows < MaxRows
  /\ rows' = IF ok THEN rows + 1 ELSE rows
  /\ isRegistered' = IF ok THEN [isRegistered EXCEPT !["page"] = TRUE] ELSE isRegistered
  /\ showPaymentQR' = FALSE
  /\ IF ok THEN Return(call, <<"Registration Successful!">>) ELSE Catch(call, <<"Error">>)
  /\ UNCHANGED <<user, registering>>
  /\ UNCHANGED <<turn, outsideReg>>

ConfirmAnswered(call, ok) ==
  /\ call.op = "confirmPayment" /\ call.pc = "insert"
  /\ ok => rows < MaxRows
  /\ rows' = IF ok THEN rows + 1 ELSE rows
  /\ isRegistered' = IF ok THEN [isRegistered EXCEPT !["page"] = TRUE] ELSE isRegistered
  /\ showPaymentQR' = IF ok THEN FALSE ELSE showPaymentQR
  /\ IF ok THEN Return(call, <<"Registration Successful!">>) ELSE Catch(call, <<"Error">>)
  /\ UNCHANGED <<user, registering>>
  /\ UNCHANGED <<turn, outsideReg>>

\* the modal's backdrop or Cancel button: setShowPaymentQR(false)
ClosePaymentQR ==
  /\ Rendered("page")
  /\ showPaymentQR
  /\ showPaymentQR' = FALSE
  /\ UNCHANGED <<user, rows, isRegistered, registering, calls, finished>>
  /\ UNCHANGED <<turn, outsideReg>>

\* checkRegistration, started by the effect on [user, event id]
CheckInvocation(c, u) ==
  Invocation(c, "checkRegistration", "select", u, FALSE, NoAnswer, <<>>,
             <<"registrations.select">>)

\* the auth state changes to a signed-in user: both effects run
SignIn(u) ==
  /\ user = NoUser
  /\ BagCardinality(calls) + 2 <= MaxCalls
  /\ user' = u
  /\ calls' = calls (+) SetToBag({CheckInvocation("card", u), CheckInvocation("page", u)})
  /\ UNCHANGED <<rows, isRegistered, registering, showPaymentQR, finished>>
  /\ UNCHANGED <<turn, outsideReg>>

\* the auth state changes to no user: the card's effect resets its flag, the
\* page's effect starts no registration query
SignOut ==
  /\ user # NoUser
  /\ user' = NoUser
  /\ isRegistered' = [isRegistered EXCEPT !["card"] = FALSE]
  /\ UNCHANGED <<rows, registering, showPaymentQR, calls, finished>>
  /\ UNCHANGED <<turn, outsideReg>>

\* the select of checkRegistration answers; maybeSingle() answers with an
\* error when more than one row matches
CheckAnswered(call, ok) ==
  /\ call.op = "checkRegistration"
  /\ ok => rows <= 1
  /\ isRegistered' = IF ok THEN [isRegistered EXCEPT ![call.comp] = (rows > 0)] ELSE isRegistered
  /\ IF ok THEN Return(call, <<>>) ELSE Catch(call, <<>>)
  /\ UNCHANGED <<user, rows, registering, showPaymentQR>>
  /\ UNCHANGED <<turn, outsideReg>>

RegIdle ==
  /\ user = NoUser
  /\ rows = 0
  /\ isRegistered = [c \in Comps |-> FALSE]
  /\ registering = [c \in Comps |-> FALSE]
  /\ showPaymentQR = FALSE
  /\ calls = EmptyBag
  /\ finished = <<>>

\* ------------------------------------------------------ event detail page
\* the queries started by the effect on [eventId, user]
FetchEventInvocation(u) ==
  Invocation("page", "fetchEvent", "select", u, FALSE, NoAnswer, <<>>, <<"events.select">>)

CountInvocation(u) ==
  Invocation("page", "fetchRegistrationCount", "select", u, FALSE, NoAnswer, <<>>,
             <<"registrations.count">>)

FavoriteCheckInvocation(u) ==
  Invocation("page", "checkFavorite", "select", u, FALSE, NoAnswer, <<>>,
             <<"favorites.select">>)

\* fetchEvent(); if (user) { checkRegistration(); checkFavorite() };
\* fetchRegistrationCount()
PageEffect(u) ==
  SetToBag({FetchEventInvocation(u), CountInvocation(u)}) (+)
  (IF u = NoUser THEN EmptyBag
   ELSE SetToBag({CheckInvocation("page", u), FavoriteCheckInvocation(u)}))

EffectOps == {"fetchEvent", "fetchRegistrationCount", "checkFavorite", "checkRegistration"}

\* the queries of the previous run of the effect have all answered
EffectsAnswered == \A call \in Suspended : call.op \notin EffectOps

\* the auth state changes while the detail page is open: the effect runs
\* again, and fetchEvent sets `loading` before its await
PageSignIn(u) ==
  /\ user = NoUser
  /\ EffectsAnswered
  /\ user' = u
  /\ loading' = TRUE
  /\ calls' = calls (+) PageEffect(u)
  /\ UNCHANGED <<rows, isRegistered, registering, showPaymentQR, finished, turn>>
  /\ UNCHANGED <<event, isFavorite, favRows, registrationCount>>
  /\ UNCHANGED outsidePage

PageSignOut ==
  /\ user # NoUser
  /\ EffectsAnswered
  /\ user' = NoUser
  /\ loading' = TRUE
  /\ calls' = calls (+) PageEffect(NoUser)
  /\ UNCHANGED <<rows, isRegistered, registering, showPaymentQR, finished, turn>>
  /\ UNCHANGED <<event, isFavorite, favRows, registrationCount>>
  /\ UNCHANGED outsidePage

\* the select of fetchEvent answers
FetchEventAnswered(call, ok) ==
  /\ call.op = "fetchEvent"
  /\ event' = IF ok THEN PageEvent ELSE event
  /\ loading' = FALSE
  /\ IF ok THEN Return(call, <<>>) ELSE Catch(call, <<"Error">>)
  /\ UNCHANGED <<user, rows, isRegistered, registering, showPaymentQR, turn>>
  /\ UNCHANGED <<isFavorite, favRows, registrationCount>>
  /\ UNCHANGED outsidePage

\* the count query of fetchRegistrationCount answers
CountAnswered(call, ok) ==
  /\ call.op = "fetchRegistrationCount"
  /\ registrationCount' = IF ok THEN rows ELSE registrationCount
  /\ IF ok THEN Return(call, <<>>) ELSE Catch(call, <<>>)
  /\ UNCHANGED <<user, rows, isRegistered, registering, showPaymentQR, turn>>
  /\ UNCHANGED <<loading, event, isFavorite, favRows>>
  /\ UNCHANGED outsidePage

\* the select of checkFavorite answers; error code PGRST116 (no row) is not
\* thrown
FavoriteChecked(call, ok) ==
  /\ call.op = "checkFavorite"
  /\ isFavorite' = IF ok THEN favRows > 0 ELSE isFavorite
  /\ IF ok THEN Return(call, <<>>) ELSE Catch(call, <<>>)
  /\ UNCHANGED <<user, rows, isRegistered, registering, showPaymentQR, turn>>
  /\ UNCHANGED <<loading, event, favRows, registrationCount>>
  /\ UNCHANGED outsidePage

\* toggleFavorite, from the click to its await; the invocation keeps the
\* `isFavorite` of its render in the flag field
ToggleFavorite ==
  /\ Rendered("page")
  /\ IF user = NoUser
     THEN /\ finished' = <<Invocation("page", "toggleFavorite", "done", user, isFavorite,
                                      NoAnswer, <<"Login Required">>, <<>>)>>
          /\ UNCHANGED calls
     ELSE /\ BagCardinality(calls) < MaxCalls
          /\ calls' = Suspend(
               IF isFavorite
               THEN Invocation("page", "toggleFavorite", "delete", user, isFavorite,
                               NoAnswer, <<>>, <<"favorites.delete">>)
               ELSE Invocation("page", "toggleFavorite", "insert", user, isFavorite,
                               NoAnswer, <<>>, <<"favorites.insert">>))
          /\ UNCHANGED finished
  /\ UNCHANGED <<user, rows, isRegistered, registering, showPaymentQR, turn>>
  /\ UNCHANGED pageVars
  /\ UNCHANGED outsidePage

\* the delete or insert of toggleFavorite answers
FavoriteAnsweredOptimistic(call, ok) ==
  /\ call.op = "toggleFavorite"
  /\ (ok /\ call.pc = "insert") => favRows < MaxRows
  /\ favRows' = IF ~ok THEN favRows ELSE IF call.pc = "delete" THEN 0 ELSE favRows + 1
  /\ isFavorite' = (call.pc = "insert")
  /\ IF ok THEN Return(call, <<>>) ELSE Catch(call, <<>>)
  /\ UNCHANGED <<user, rows, isRegistered, registering, showPaymentQR, turn>>
  /\ UNCHANGED <<loading, event, registrationCount>>
  /\ UNCHANGED outsidePage

FavoriteAnswered(call, ok) ==
  /\ call.op = "toggleFavorite"
  /\ (ok /\ call.pc = "insert") => favRows < MaxRows
  /\ favRows' = IF ~ok THEN favRows ELSE IF call.pc = "delete" THEN 0 ELSE favRows + 1
  /\ isFavorite' = IF ~ok THEN isFavorite ELSE (call.pc = "insert")
  /\ IF ok THEN Return(call, <<>>) ELSE Catch(call, <<>>)
  /\ UNCHANGED <<user, rows, isRegistered, registering, showPaymentQR, turn>>
  /\ UNCHANGED <<loading, event, registrationCount>>
  /\ UNCHANGED outsidePage

\* ------------------------------------------------ checkout of the cart
\* The cart panel (Cart.tsx), its PaymentModal and the external checkout
\* widget.  The modal's state lives while `showPayment` keeps it mounted; an
\* unmounted modal is described by the state its next mount starts with.
Responses == {"paid", "forged"}      \* what the widget hands to `handler`

\* the controls of the open panel, out of reach under the payment modal
PanelUncovered == isCartOpen /\ ~showPayment /\ widget = 0

\* HomePage: onCartClick
OpenCart ==
  /\ mounted[PanelStore]
  /\ ~isCartOpen
  /\ isCartOpen' = TRUE
  /\ UNCHANGED <<showPayment, paymentStatus, razorpayLoaded, gen, widget, payTimers>>
  /\ UNCHANGED cartVars
  /\ UNCHANGED outsidePay

\* the panel's overlay or close button: onClose(); the payment modal and the
\* widget cover them while they are open
CloseCart ==
  /\ PanelUncovered
  /\ isCartOpen' = FALSE
  /\ UNCHANGED <<showPayment, paymentStatus, razorpayLoaded, gen, widget, payTimers>>
  /\ UNCHANGED cartVars
  /\ UNCHANGED outsidePay

\* Cart.handlePayment: a PaymentModal is mounted and its effect starts
\* loading the checkout script
HandlePaymentOfEmptyCart ==
  /\ PanelUncovered
  /\ gen < MaxModals
  /\ showPayment' = TRUE
  /\ gen' = gen + 1
  /\ UNCHANGED <<isCartOpen, paymentStatus, razorpayLoaded, widget, payTimers>>
  /\ UNCHANGED cartVars
  /\ UNCHANGED outsidePay

HandlePayment ==
  /\ PanelUncovered
  /\ IF items[PanelStore] = <<>>
     THEN UNCHANGED <<showPayment, gen>>
     ELSE /\ gen < MaxModals
          /\ showPayment' = TRUE
          /\ gen' = gen + 1
  /\ UNCHANGED <<isCartOpen, paymentStatus, razorpayLoaded, widget, payTimers>>
  /\ UNCHANGED cartVars
  /\ UNCHANGED outsidePay

\* script.onload of the mounted modal: setRazorpayLoaded(true)
ScriptLoaded ==
  /\ showPayment /\ ~razorpayLoaded
  /\ razorpayLoaded' = TRUE
  /\ UNCHANGED <<isCartOpen, showPayment, paymentStatus, gen, widget, payTimers>>
  /\ UNCHANGED cartVars
  /\ UNCHANGED outsidePay

\* handleRazorpayPayment: new window.Razorpay(options).open(); the button is
\* not rendered in the success view
HandleRazorpayPayment ==
  /\ showPayment /\ paymentStatus # "success" /\ widget = 0
  /\ widget' = IF razorpayLoaded THEN gen ELSE widget
  /\ UNCHANGED <<isCartOpen, showPayment, paymentStatus, razorpayLoaded, gen, payTimers>>
  /\ UNCHANGED cartVars
  /\ UNCHANGED outsidePay

\* the state setters of a modal instance act only while it is mounted
Mounted(g) == showPayment /\ g = gen

\* the widget calls options.handler(response): setPaymentStatus('success')
\* and setTimeout(..., 2000)
WidgetCompleted(response) ==
  /\ widget # 0
  /\ Cardinality(payTimers \cup {widget}) <= MaxPayTimers
  /\ paymentStatus' = IF Mounted(widget) THEN "success" ELSE paymentStatus
  /\ payTimers' = payTimers \cup {widget}
  /\ widget' = 0
  /\ UNCHANGED <<isCartOpen, showPayment, razorpayLoaded, gen>>
  /\ UNCHANGED cartVars
  /\ UNCHANGED outsidePay

\* the widget is dismissed: options.modal.ondismiss
WidgetDismissed ==
  /\ widget # 0
  /\ paymentStatus' = IF Mounted(widget) THEN "pending" ELSE paymentStatus
  /\ widget' = 0
  /\ UNCHANGED <<isCartOpen, showPayment, razorpayLoaded, gen, payTimers>>
  /\ UNCHANGED cartVars
  /\ UNCHANGED outsidePay

\* the backdrops and the close button of the modal: setShowPayment(false)
ClosePayment ==
  /\ showPayment /\ widget = 0
  /\ showPayment' = FALSE
  /\ paymentStatus' = "pending"
  /\ razorpayLoaded' = FALSE
  /\ UNCHANGED <<isCartOpen, gen, widget, payTimers>>
  /\ UNCHANGED cartVars
  /\ UNCHANGED outsidePay

\* the 2 s timer fires: onSuccess() is Cart.handlePaymentSuccess (clearCart,
\* setShowPayment(false), onClose()), then setPaymentStatus('pending')
PaymentTimer(g) ==
  /\ g \in payTimers
  /\ mounted[PanelStore]
  /\ \E writeOk \in BOOLEAN :
       /\ Commit(PanelStore, ClearedItems(items[PanelStore]), writeOk)
       /\ last' = Call("clearCart", PanelStore, "-", 0, 0,
                       WriteOutcome(ClearedItems(items[PanelStore]), writeOk))
  /\ showPayment' = FALSE
  /\ isCartOpen' = FALSE
  /\ paymentStatus' = "pending"
  /\ razorpayLoaded' = FALSE
  /\ payTimers' = payTimers \ {g}
  /\ UNCHANGED <<gen, widget>>
  /\ UNCHANGED <<mounted, timers, cardEvent>>
  /\ UNCHANGED outsidePay

\* no cart panel is open and no payment is under way
PayIdle ==
  /\ isCartOpen = FALSE
  /\ showPayment = FALSE
  /\ paymentStatus = "pending"
  /\ razorpayLoaded = FALSE
  /\ gen = 0
  /\ widget = 0
  /\ payTimers = {}

\* the page is reloaded during a checkout: the components' state, the widget
\* and the timers are gone, local storage stays
PayReload ==
  /\ mounted[PanelStore]
  /\ mounted' = [s \in Stores |-> FALSE]
  /\ items' = [s \in Stores |-> <<>>]
  /\ timers' = {}
  /\ cardEvent' = NoEvent
  /\ last' = Call("reload", "-", "-", 0, 0, "skipped")
  /\ isCartOpen' = FALSE
  /\ showPayment' = FALSE
  /\ paymentStatus' = "pending"
  /\ razorpayLoaded' = FALSE
  /\ gen' = 0
  /\ widget' = 0
  /\ payTimers' = {}
  /\ UNCHANGED storage
  /\ UNCHANGED outsidePay

\* ------------------------------------------------------------ admin panel
\* AdminPanel of the home page: the tables `clubs` and `events`, their lists,
\* forms and handlers.  An email is text, modelled as the list of its
\* characters; an account may have no email.
Tables == {"clubs", "events"}
Tabs == Tables \cup {"participants"}
RowIds == {"r1"}
NoRow == "-"

AdminWord == <<"a", "d", "m", "i", "n">>
CampusAdmin == AdminWord \o <<"@", "c", "a", "m", "p", "u", "s", ".", "c", "o", "m">>

Accounts == {"u1", "admin", "sysadmin", "phone"}

Email(u) ==
  CASE u = "admin" -> [set |-> TRUE, text |-> CampusAdmin]
    [] u = "sysadmin" -> [set |-> TRUE, text |-> <<"s", "y", "s">> \o AdminWord \o <<"@", "x">>]
    [] u = "u1" -> [set |-> TRUE, text |-> <<"u", "1", "@", "a", "d", "m", ".", "i", "n">>]
    [] OTHER -> [set |-> FALSE, text |-> <<>>]

\* String.prototype.includes
Includes(text, word) ==
  \E i \in 1..(Len(text) - Len(word) + 1) : SubSeq(text, i, i + Len(word) - 1) = word

\* user?.email?.includes('admin') || user?.email === 'admin@campus.com'
IsAdminWhenSignedIn(u) == u # NoUser

IsAdmin(u) ==
  /\ u # NoUser
  /\ Email(u).set
  /\ Includes(Email(u).text, AdminWord) \/ Email(u).text = CampusAdmin

\* the full panel is rendered; the form modals cover it while one is open
AdminRendered == isAdminOpen /\ IsAdmin(user)
PanelControls == AdminRendered /\ \A t \in Tables : ~showForm[t]

\* the list of table t shows its rows with their buttons
ListShown(t) == PanelControls /\ activeTab = t /\ (t = "clubs" => ~adminLoading)

AdminCall(op, t, id) == [op |-> op, table |-> t, id |-> id]
AdminSuspended == BagToSet(adminCalls)

\* fetchData(): clubs, events and users are selected at once
FetchData == AdminCall("fetchData", "-", NoRow)

\* useEffect(() => { if (isOpen && isAdmin) fetchData() }, [isOpen, isAdmin]),
\* run when isOpen or isAdmin has changed
AdminEffect(open, admin) ==
  IF open /\ admin
  THEN /\ BagCardinality(adminCalls) < MaxCalls
       /\ adminCalls' = adminCalls (+) SetToBag({FetchData})
       /\ adminLoading' = TRUE
  ELSE UNCHANGED <<adminCalls, adminLoading>>

\* the auth state changes to a signed-in user
AdminSignIn(u) ==
  /\ user = NoUser
  /\ user' = u
  /\ IF IsAdmin(u) THEN AdminEffect(isAdminOpen, TRUE)
     ELSE UNCHANGED <<adminCalls, adminLoading>>
  /\ UNCHANGED <<isAdminOpen, activeTab, listed, remote, editing, showForm, prompt>>
  /\ UNCHANGED outsideAdmin

\* the auth state changes to no user
AdminSignOut ==
  /\ user # NoUser
  /\ user' = NoUser
  /\ UNCHANGED adminVars
  /\ UNCHANGED outsideAdmin

\* HomePage: onAdminClick
OpenAdmin ==
  /\ ~isAdminOpen
  /\ isAdminOpen' = TRUE
  /\ AdminEffect(TRUE, IsAdmin(user))
  /\ UNCHANGED <<user, activeTab, listed, remote, editing, showForm, prompt>>
  /\ UNCHANGED outsideAdmin

\* the backdrop and the close buttons of the panel and of the Access Denied
\* card: onClose()
CloseAdmin ==
  /\ isAdminOpen
  /\ IsAdmin(user) => PanelControls
  /\ isAdminOpen' = FALSE
  /\ UNCHANGED <<user, activeTab, listed, remote, adminLoading, editing, showForm,
                 adminCalls, prompt>>
  /\ UNCHANGED outsideAdmin

SetActiveTab(tab) ==
  /\ PanelControls
  /\ activeTab' = tab
  /\ UNCHANGED <<user, isAdminOpen, listed, remote, adminLoading, editing, showForm,
                 adminCalls, prompt>>
  /\ UNCHANGED outsideAdmin

\* 'Add Club' / 'Add Event'
AddClick(t) ==
  /\ PanelControls /\ activeTab = t
  /\ editing' = [editing EXCEPT ![t] = NoRow]
  /\ showForm' = [showForm EXCEPT ![t] = TRUE]
  /\ UNCHANGED <<user, isAdminOpen, activeTab, listed, remote, adminLoading, adminCalls,
                 prompt>>
  /\ UNCHANGED outsideAdmin

\* the edit button of a listed row
EditClick(t, id) ==
  /\ ListShown(t) /\ id \in listed[t]
  /\ editing' = [editing EXCEPT ![t] = id]
  /\ showForm' = [showForm EXCEPT ![t] = TRUE]
  /\ UNCHANGED <<user, isAdminOpen, activeTab, listed, remote, adminLoading, adminCalls,
                 prompt>>
  /\ UNCHANGED outsideAdmin

\* the backdrop and Cancel of a form modal
CloseForm(t) ==
  /\ AdminRendered /\ showForm[t]
  /\ showForm' = [showForm EXCEPT ![t] = FALSE]
  /\ editing' = [editing EXCEPT ![t] = NoRow]
  /\ UNCHANGED <<user, isAdminOpen, activeTab, listed, remote, adminLoading, adminCalls,
                 prompt>>
  /\ UNCHANGED outsideAdmin

\* handleSaveClub / handleSaveEvent, from the submit of the form modal to the
\* await of the update or the insert
HandleSave(t) ==
  /\ AdminRendered /\ showForm[t]
  /\ BagCardinality(adminCalls) < MaxCalls
  /\ adminCalls' = adminCalls (+) SetToBag(
       {IF editing[t] # NoRow THEN AdminCall("update", t, editing[t])
        ELSE AdminCall("insert", t, NoRow)})
  /\ UNCHANGED <<user, isAdminOpen, activeTab, listed, remote, adminLoading, editing,
                 showForm, prompt>>
  /\ UNCHANGED outsideAdmin

\* the update or insert answers: fetchData(), setEditing(null),
\* setShowForm(false); the catch block only logs
SaveAnswered(call, ok) ==
  /\ call.op \in {"update", "insert"}
  /\ (ok /\ call.op = "insert") => remote[call.table] # RowIds
  /\ IF ok
     THEN /\ remote' = IF call.op = "insert"
                       THEN [remote EXCEPT ![call.table] =
                               @ \cup {CHOOSE id \in RowIds : id \notin @}]
                       ELSE remote
          /\ adminCalls' = (adminCalls (-) SetToBag({call})) (+) SetToBag({FetchData})
          /\ adminLoading' = TRUE
          /\ editing' = [editing EXCEPT ![call.table] = NoRow]
          /\ showForm' = [showForm EXCEPT ![call.table] = FALSE]
     ELSE /\ adminCalls' = adminCalls (-) SetToBag({call})
          /\ UNCHANGED <<remote, adminLoading, editing, showForm>>
  /\ UNCHANGED <<user, isAdminOpen, activeTab, listed, prompt>>
  /\ UNCHANGED outsideAdmin

\* handleDeleteClub / handleDeleteEvent: if (!confirm(...)) return, then the
\* delete is sent
HandleDelete(t, id, accepted) ==
  /\ ListShown(t) /\ id \in listed[t]
  /\ prompt' = IF accepted THEN "accepted" ELSE "declined"
  /\ IF accepted
     THEN /\ BagCardinality(adminCalls) < MaxCalls
          /\ adminCalls' = adminCalls (+) SetToBag({AdminCall("delete", t, id)})
     ELSE UNCHANGED adminCalls
  /\ UNCHANGED <<user, isAdminOpen, activeTab, listed, remote, adminLoading, editing,
                 showForm>>
  /\ UNCHANGED outsideAdmin

\* the delete answers: fetchData() when it succeeded
AdminDeleteAnswered(call, ok) ==
  /\ call.op = "delete"
  /\ IF ok
     THEN /\ remote' = [remote EXCEPT ![call.table] = @ \ {call.id}]
          /\ adminCalls' = (adminCalls (-) SetToBag({call})) (+) SetToBag({FetchData})
          /\ adminLoading' = TRUE
     ELSE /\ adminCalls' = adminCalls (-) SetToBag({call})
          /\ UNCHANGED <<remote, adminLoading>>
  /\ UNCHANGED <<user, isAdminOpen, activeTab, listed, editing, showForm, prompt>>
  /\ UNCHANGED outsideAdmin

\* the three selects of fetchData have answered: the lists are replaced when
\* none failed; finally setLoading(false)
FetchAnswered(call, ok) ==
  /\ call.op = "fetchData"
  /\ listed' = IF ok THEN remote ELSE listed
  /\ adminLoading' = FALSE
  /\ adminCalls' = adminCalls (-) SetToBag({call})
  /\ UNCHANGED <<user, isAdminOpen, activeTab, remote, editing, showForm, prompt>>
  /\ UNCHANGED outsideAdmin

\* the panel closed, nothing fetched yet; the remote tables hold a row each
AdminIdle ==
  /\ isAdminOpen = FALSE
  /\ activeTab = "clubs"
  /\ listed = [t \in Tables |-> {}]
  /\ remote = [t \in Tables |-> RowIds]
  /\ adminLoading = FALSE
  /\ editing = [t \in Tables |-> NoRow]
  /\ showForm = [t \in Tables |-> FALSE]
  /\ adminCalls = EmptyBag
  /\ prompt = "none"

\* the detail page before its event has loaded, and with the event shown
PageIdle ==
  /\ loading = TRUE
  /\ event = NoEvent
  /\ isFavorite = FALSE
  /\ favRows = 0
  /\ registrationCount = 0

PageShown ==
  /\ loading = FALSE
  /\ event = PageEvent
  /\ isFavorite = FALSE
  /\ favRows = 0
  /\ registrationCount = 0

CartIdle ==
  /\ items = [s \in Stores |-> <<>>]
  /\ mounted = [s \in Stores |-> FALSE]
  /\ storage = NoSnapshot
  /\ timers = {}
  /\ cardEvent = NoEvent
  /\ last = Call("init", "-", "-", 0, 0, "skipped")

RegInit == CartIdle /\ RegIdle /\ PageShown /\ PayIdle /\ AdminIdle /\ turn = 0

RegNext ==
  \/ \E u \in Users : SignIn(u)
  \/ SignOut
  \/ \E c \in Comps : HandleRegister(c)
  \/ \E call \in Suspended, answer \in ProfileAnswers : ProfileAnswered(call, answer)
  \/ \E call \in Suspended, ok \in BOOLEAN : DeleteAnswered(call, ok)
  \/ \E call \in Suspended, ok \in BOOLEAN : InsertAnswered(call, ok)
  \/ \E call \in Suspended, ok \in BOOLEAN : QrGenerated(call, ok)
  \/ ConfirmPayment
  \/ \E call \in Suspended, ok \in BOOLEAN : ConfirmAnswered(call, ok)
  \/ ClosePaymentQR
  \/ \E call \in Suspended, ok \in BOOLEAN : CheckAnswered(call, ok)

RegSpec == RegInit /\ [][RegNext]_vars

\* The event card alone, for a user whose profile is complete and on a store
\* that accepts every request, its register button clicked again only once
\* the previous call has returned; the clicks are counted.
CompleteProfile == ProfileAnswer("row", "n", "p", "r", "b")
NoProfile == ProfileAnswer("norow", "", "", "", "")

SequentialRegister ==
  /\ user # NoUser
  /\ calls = EmptyBag
  /\ turn <= MaxTurns
  /\ HandleRegister("card")

ToggleInit == CartIdle /\ RegIdle /\ PageShown /\ PayIdle /\ AdminIdle /\ turn = 1

ToggleNext ==
  \/ \E u \in Users : SignIn(u)
  \/ SignOut
  \/ \E call \in Suspended : CheckAnswered(call, TRUE)
  \/ SequentialRegister
  \/ \E call \in Suspended : ProfileAnswered(call, CompleteProfile)
  \/ \E call \in Suspended : DeleteAnswered(call, TRUE)
  \/ \E call \in Suspended : InsertAnswered(call, TRUE)

ToggleSpec == ToggleInit /\ [][ToggleNext]_vars

\* The same card, user and store, the register button clicked whenever it is
\* enabled: a second click may come while the first call is still suspended.
OverlappingRegister ==
  /\ user # NoUser
  /\ turn <= MaxTurns
  /\ HandleRegister("card")

OverlapNext ==
  \/ \E u \in Users : SignIn(u)
  \/ SignOut
  \/ \E call \in Suspended : CheckAnswered(call, TRUE)
  \/ OverlappingRegister
  \/ \E call \in Suspended : ProfileAnswered(call, CompleteProfile)
  \/ \E call \in Suspended : DeleteAnswered(call, TRUE)
  \/ \E call \in Suspended : InsertAnswered(call, TRUE)

OverlapSpec == ToggleInit /\ [][OverlapNext]_vars

\* The event detail page, from its first render: the effect has started
\* fetchEvent and fetchRegistrationCount for the signed-out session.
PageInit ==
  /\ CartIdle
  /\ PageIdle
  /\ PayIdle
  /\ AdminIdle
  /\ user = NoUser
  /\ rows = 0
  /\ isRegistered = [c \in Comps |-> FALSE]
  /\ registering = [c \in Comps |-> FALSE]
  /\ showPaymentQR = FALSE
  /\ calls = PageEffect(NoUser)
  /\ finished = <<>>
  /\ turn = 0

\* the page's favorite button and the queries of its effect
FavNext ==
  \/ \E u \in Users : PageSignIn(u)
  \/ PageSignOut
  \/ \E call \in Suspended, ok \in BOOLEAN : FetchEventAnswered(call, ok)
  \/ \E call \in Suspended, ok \in BOOLEAN : CountAnswered(call, ok)
  \/ \E call \in Suspended, ok \in BOOLEAN : FavoriteChecked(call, ok)
  \/ \E call \in Suspended, ok \in BOOLEAN : CheckAnswered(call, ok)
  \/ ToggleFavorite
  \/ \E call \in Suspended, ok \in BOOLEAN : FavoriteAnswered(call, ok)

FavSpec == PageInit /\ [][FavNext]_vars

\* the whole page: favorites, the effect and the registration workflow
PageNext ==
  \/ \E u \in Users : PageSignIn(u)
  \/ PageSignOut
  \/ \E call \in Suspended, ok \in BOOLEAN : FetchEventAnswered(call, ok)
  \/ \E call \in Suspended, ok \in BOOLEAN : CountAnswered(call, ok)
  \/ \E call \in Suspended, ok \in BOOLEAN : FavoriteChecked(call, ok)
  \/ \E call \in Suspended, ok \in BOOLEAN : CheckAnswered(call, ok)
  \/ ToggleFavorite
  \/ \E call \in Suspended, ok \in BOOLEAN : FavoriteAnswered(call, ok)
  \/ HandleRegister("page")
  \/ \E call \in Suspended, answer \in {CompleteProfile, NoProfile} :
       ProfileAnswered(call, answer)
  \/ \E call \in Suspended, ok \in BOOLEAN : DeleteAnswered(call, ok)
  \/ \E call \in Suspended, ok \in BOOLEAN : QrGenerated(call, ok)
  \/ ConfirmPayment
  \/ \E call \in Suspended, ok \in BOOLEAN : ConfirmAnswered(call, ok)
  \/ ClosePaymentQR

PageSpec == PageInit /\ [][PageNext]_vars

\* The cart panel of a session that starts on the snapshot an earlier
\* session left, and its checkout.
PaySnapshots ==
  {NoSnapshot,
   Stringify(<<CartItem("A", DefaultPrice, 1)>>),
   Stringify(<<CartItem("A", DefaultPrice, 1), CartItem("B", DefaultPrice, MaxQty)>>)}

PayInit ==
  /\ items = [s \in Stores |-> <<>>]
  /\ mounted = [s \in Stores |-> FALSE]
  /\ storage \in PaySnapshots
  /\ timers = {}
  /\ cardEvent = NoEvent
  /\ last = Call("init", "-", "-", 0, 0, "skipped")
  /\ RegIdle /\ PageIdle /\ PayIdle /\ AdminIdle /\ turn = 0

PanelQuantityChange(id, newQuantity) ==
  PanelUncovered /\ HandleQuantityChange(id, newQuantity)

PanelClear == PanelUncovered /\ ClearCart(PanelStore)

PayNext ==
  \/ Mount(PanelStore, NoEvent)
  \/ PayReload
  \/ OpenCart
  \/ CloseCart
  \/ \E id \in Ids, newQuantity \in 0..MaxQty : PanelQuantityChange(id, newQuantity)
  \/ PanelClear
  \/ HandlePayment
  \/ ScriptLoaded
  \/ HandleRazorpayPayment
  \/ \E response \in Responses : WidgetCompleted(response)
  \/ WidgetDismissed
  \/ ClosePayment
  \/ \E g \in payTimers : PaymentTimer(g)

PaySpec == PayInit /\ [][PayNext]_vars

\* checkProfileComplete on every answer of the profile select, as the two
\* handleRegister functions call it.
ProfileNext ==
  \/ \E u \in Users : SignIn(u)
  \/ SignOut
  \/ \E call \in Suspended, ok \in BOOLEAN : CheckAnswered(call, ok)
  \/ \E c \in Comps : HandleRegister(c)
  \/ \E call \in Suspended, answer \in AllProfileAnswers : ProfileAnswered(call, answer)

ProfileSpec == RegInit /\ [][ProfileNext]_vars

\* The event detail page alone, its event loaded: registration through the
\* payment QR modal, on a store that may refuse any request.
QrNext ==
  \/ \E u \in Users : SignIn(u)
  \/ SignOut
  \/ \E call \in Suspended, ok \in BOOLEAN : CheckAnswered(call, ok)
  \/ HandleRegister("page")
  \/ \E call \in Suspended, answer \in {CompleteProfile, NoProfile} : ProfileAnswered(call, answer)
  \/ \E call \in Suspended, ok \in BOOLEAN : DeleteAnswered(call, ok)
  \/ \E call \in Suspended, ok \in BOOLEAN : QrGenerated(call, ok)
  \/ ConfirmPayment
  \/ \E call \in Suspended, ok \in BOOLEAN : ConfirmAnswered(call, ok)
  \/ ClosePaymentQR

QrSpec == RegInit /\ [][QrNext]_vars

Init == CartInit /\ RegIdle /\ PageIdle /\ PayIdle /\ AdminIdle /\ turn = 0

Spec == Init /\ [][Next]_vars

SessionSpec == Init /\ [][SessionNext]_vars

UiSpec == Init /\ [][UiNext]_vars

CardsSpec == Init /\ [][CardsNext]_vars

\* The admin panel of the home page, for every account and a store that may
\* refuse any request.
AdminNext ==
  \/ \E u \in Accounts : AdminSignIn(u)
  \/ AdminSignOut
  \/ OpenAdmin
  \/ CloseAdmin
  \/ \E tab \in Tabs : SetActiveTab(tab)
  \/ \E t \in Tables : AddClick(t)
  \/ \E t \in Tables, id \in RowIds : EditClick(t, id)
  \/ \E t \in Tables : CloseForm(t)
  \/ \E t \in Tables : HandleSave(t)
  \/ \E call \in AdminSuspended, ok \in BOOLEAN : SaveAnswered(call, ok)
  \/ \E t \in Tables, id \in RowIds, accepted \in BOOLEAN : HandleDelete(t, id, accepted)
  \/ \E call \in AdminSuspended, ok \in BOOLEAN : AdminDeleteAnswered(call, ok)
  \/ \E call \in AdminSuspended, ok \in BOOLEAN : FetchAnswered(call, ok)

AdminInit == CartIdle /\ RegIdle /\ PageIdle /\ PayIdle /\ AdminIdle /\ turn = 0

AdminSpec == AdminInit /\ [][AdminNext]_vars

\* =============================================================== claims
\* the last finished invocation, if any
Finished(f) == Len(f) = 1

\* the operations that call setItems, as recorded in `last`
Mutated(call) ==
  \/ call.op \in {"addToCart", "removeFromCart", "updateQuantity", "clearCart"}
  \/ call.op = "handleQuantityChange" /\ call.n >= 1

\* sum of f over the positions 1..n of a list
RECURSIVE SumQuantity(_, _)
SumQuantity(its, n) == IF n = 0 THEN 0 ELSE SumQuantity(its, n - 1) + its[n].quantity

RECURSIVE SumCost(_, _)
SumCost(its, n) ==
  IF n = 0 THEN 0 ELSE SumCost(its, n - 1) + its[n].price * its[n].quantity

\* C1: after any sequence of addToCart, removeFromCart and updateQuantity
\* calls, getTotalItems() is the sum of the quantities of the items in the
\* cart and getTotalPrice() the sum of price times quantity.
C1_TotalsAreSums ==
  \A s \in Stores :
    /\ GetTotalItems(items[s]) = SumQuantity(items[s], Len(items[s]))
    /\ GetTotalPrice(items[s]) = SumCost(items[s], Len(items[s]))

\* the scenario A at 100 once, B at 50 twice, reached by an updateQuantity
C1_Witness ==
  /\ last.op = "updateQuantity"
  /\ items[last.store] = <<CartItem("A", 100, 1), CartItem("B", 50, 2)>>
  /\ GetTotalItems(items[last.store]) = 3
  /\ GetTotalPrice(items[last.store]) = 200

\* C2: addToCart(event, price) on a cart holding an item with the event's id
\* raises that item's quantity by exactly 1 and keeps the number of items
\* (so a second add of the same id gives one item of quantity 2); otherwise
\* it appends exactly one item with that id, quantity 1 and the given price.
C2_AddToCart ==
  [][last'.op = "addToCart" =>
       LET s == last'.store
           old == items[s]
           new == items'[s]
           at(its) == {i \in 1..Len(its) : its[i].id = last'.id}
       IN  IF at(old) # {}
           THEN /\ Len(new) = Len(old)
                /\ at(new) = at(old)
                /\ \A i \in at(old) :
                      /\ new[i].quantity = old[i].quantity + 1
                      /\ new[i].price = old[i].price
                /\ \A i \in at(old) : old[i].quantity = 1 =>
                      /\ Cardinality(at(new)) = 1
                      /\ new[i].quantity = 2
           ELSE /\ Len(new) = Len(old) + 1
                /\ \A i \in 1..Len(old) : new[i] = old[i]
                /\ new[Len(new)] = CartItem(last'.id, last'.price, 1)]_vars

\* a second add of an id: one item of that id, with quantity 2, next to
\* another item
C2_Witness ==
  /\ last.op = "addToCart"
  /\ Len(items[last.store]) = 2
  /\ \E i \in 1..2 :
       /\ items[last.store][i].id = last.id
       /\ items[last.store][i].quantity = 2
       /\ items[last.store][3 - i].id # last.id

\* C3: in every reachable state every item of the in-memory cart and every
\* row of the persisted snapshot has a quantity of at least 1.
C3_QuantityPositive ==
  /\ \A s \in Stores : \A i \in 1..Len(items[s]) : items[s][i].quantity >= 1
  /\ \A i \in 1..Len(storage.body) : storage.body[i][3] >= 1

\* updateQuantity(id, 0) has acted on a cart of two items and the remaining
\* item was persisted
C3_Witness ==
  /\ last.op = "updateQuantity"
  /\ last.n = 0
  /\ last.write = "ok"
  /\ Len(items[last.store]) = 1
  /\ ~IsInCart(items[last.store], last.id)
  /\ Len(storage.body) = 1

\* C4: updateQuantity(id, n) with n >= 1 leaves the item with that id at
\* quantity n and every other item as it was; with n <= 0 the cart is the
\* one removeFromCart(id) produces, and isInCart(id) is false.
C4_UpdateQuantity ==
  [][last'.op = "updateQuantity" =>
       LET s == last'.store
           old == items[s]
           new == items'[s]
       IN  IF last'.n >= 1
           THEN /\ Len(new) = Len(old)
                /\ \A i \in 1..Len(old) :
                      IF old[i].id = last'.id
                      THEN new[i] = CartItem(old[i].id, old[i].price, last'.n)
                      ELSE new[i] = old[i]
           ELSE /\ new = RemoveItems(old, last'.id)
                /\ ~IsInCart(new, last'.id)]_vars

\* updateQuantity(id, MaxQty) has acted on a cart whose other item keeps
\* quantity 1
C4_Witness ==
  /\ last.op = "updateQuantity"
  /\ last.n = MaxQty
  /\ Len(items[last.store]) = 2
  /\ \E i \in 1..2 :
       /\ items[last.store][i].id = last.id
       /\ items[last.store][i].quantity = MaxQty
       /\ items[last.store][3 - i].quantity = 1

\* C5: removeFromCart(id) removes the item with that id when it is present
\* and leaves every other item, its place, price and quantity as they were;
\* when no item has that id the cart is unchanged.
C5_RemoveFromCart ==
  [][last'.op = "removeFromCart" =>
       LET old == items[last'.store]
           new == items'[last'.store]
           at == {i \in 1..Len(old) : old[i].id = last'.id}
       IN  IF at = {}
           THEN new = old
           ELSE \E k \in at : new = SubSeq(old, 1, k - 1) \o SubSeq(old, k + 1, Len(old))]_vars

\* C6: after clearCart() the item list is empty, getTotalItems() and
\* getTotalPrice() are 0 and isInCart(id) is false for every id.
C6_ClearCart ==
  last.op = "clearCart" =>
    /\ items[last.store] = <<>>
    /\ GetTotalItems(items[last.store]) = 0
    /\ GetTotalPrice(items[last.store]) = 0
    /\ \A id \in Ids : ~IsInCart(items[last.store], id)

\* clearCart() has acted in a session that had persisted a cart of two items
C6_Witness ==
  /\ last.op = "clearCart"
  /\ items[last.store] = <<>>
  /\ Len(storage.body) = 2

\* C7 as stated: after a mutation that leaves the cart non-empty, the
\* snapshot under 'cart' is the item list of the instance that mutated.
C7_SnapshotAfterMutation ==
  (Mutated(last) /\ items[last.store] # <<>>) =>
    (storage.kind = "json" /\ Parse(storage) = items[last.store])

\* C7 amended: after a mutation that leaves the cart non-empty, the snapshot
\* is the item list of the instance that mutated when setItem returned, and
\* is the snapshot of before the mutation when setItem threw.
C7_SnapshotUnlessWriteFails ==
  [][(Mutated(last') /\ items'[last'.store] # <<>>) =>
       /\ last'.write \in {"ok", "failed"}
       /\ last'.write = "ok" =>
            (storage'.kind = "json" /\ Parse(storage') = items'[last'.store])
       /\ last'.write = "failed" => storage' = storage]_vars

\* a mutation whose write went through, over an older snapshot
C7_Witness ==
  /\ Mutated(last)
  /\ last.write = "ok"
  /\ Len(items[last.store]) = 2
  /\ storage = Stringify(items[last.store])

\* C8: an instance initialised from storage starts with the items of the
\* snapshot, or with the empty list when there is none or it does not
\* parse; a cart written by the persistence effect is what the initialiser
\* yields from that snapshot; and no step other than its own initialisation
\* makes an instance take items from storage.
C8_HydrateRoundTrip ==
  [][/\ last'.op = "mount" =>
          LET new == items'[last'.store]
          IN  IF storage.kind = "json"
              THEN /\ Len(new) = Len(storage.body)
                   /\ \A i \in 1..Len(new) :
                         /\ new[i].id = storage.body[i][1]
                         /\ new[i].price = storage.body[i][2]
                         /\ new[i].quantity = storage.body[i][3]
              ELSE new = <<>>
     /\ last'.write = "ok" => InitialItems(storage') = items'[last'.store]
     /\ \A s \in Stores :
          (mounted[s] /\ mounted'[s] /\ s # last'.store) => items'[s] = items[s]]_vars

\* the cart panel starts a session with a persisted cart whose quantity was
\* changed in an earlier session, next to a mounted event card
C8_Witness ==
  /\ last.op = "mount"
  /\ last.store = PanelStore
  /\ mounted[CardStore]
  /\ \E i \in 1..Len(items[PanelStore]) : items[PanelStore][i].quantity = 2
  /\ Stringify(items[PanelStore]) = storage


\* a profile answer that is not a row with name, phone, roll number and
\* branch all filled in
Incomplete(answer) ==
  \/ answer.status \in {"error", "norow"}
  \/ /\ answer.status = "row"
     /\ "" \in {answer.name, answer.phone, answer.rollno, answer.branch}

\* C9: register invoked with no authenticated user sends no request, leaves
\* the registration rows, the registered flags and the busy flags as they
\* were, and emits exactly one 'Login Required' notification.
C9_RegisterUnauthenticated ==
  [][(Finished(finished') /\ finished'[1].op = "register" /\ finished'[1].user = NoUser) =>
       /\ finished'[1].toasts = <<"Login Required">>
       /\ finished'[1].sent = <<>>
       /\ finished' # finished =>
            /\ rows' = rows
            /\ isRegistered' = isRegistered
            /\ registering' = registering
            /\ calls' = calls]_vars

\* the detail page's register button was pressed after signing out, with the
\* user's row in the remote store and the page still showing 'registered'
C9_Witness ==
  /\ Finished(finished)
  /\ finished[1].op = "register"
  /\ finished[1].comp = "page"
  /\ finished[1].user = NoUser
  /\ finished[1].toasts = <<"Login Required">>
  /\ user = NoUser
  /\ rows = 1
  /\ isRegistered["page"]

\* C10: register invoked by an authenticated user whose profile is incomplete
\* or whose profile query fails sends nothing but the profile query, leaves
\* the registration rows and the registered flags as they were, and emits
\* exactly one 'Profile Incomplete' notification, whether or not the user is
\* registered.
C10_RegisterProfileIncomplete ==
  [][/\ \A call \in BagToSet(calls') :
          (call.op = "register" /\ call.answer # NoAnswer) => ~Incomplete(call.answer)
     /\ (Finished(finished') /\ finished'[1].op = "register" /\ Incomplete(finished'[1].answer)) =>
          /\ finished'[1].toasts = <<"Profile Incomplete">>
          /\ finished'[1].sent = <<"profiles.select">>
          /\ BagCardinality(calls') < BagCardinality(calls) =>
               /\ rows' = rows
               /\ isRegistered' = isRegistered
               /\ registering' = registering]_vars

\* a registered user whose profile row lacks the branch pressed the card's
\* button showing 'registered'
C10_Witness ==
  /\ Finished(finished)
  /\ finished[1].op = "register"
  /\ finished[1].comp = "card"
  /\ finished[1].user # NoUser
  /\ finished[1].isReg
  /\ finished[1].answer = ProfileAnswer("row", "n", "p", "r", "")
  /\ finished[1].toasts = <<"Profile Incomplete">>
  /\ isRegistered["card"]
  /\ rows = 1

\* C11: a signed-in user with a complete profile, a store that accepts every
\* request, no row at the start, each register call of the card returning
\* before the next click: the calls insert and delete in turn, so after an
\* odd number of calls (one, three) exactly one row exists and the card shows
\* registered, and after an even number no row exists and it shows
\* unregistered.
C11_Settled == user # NoUser /\ calls = EmptyBag /\ turn >= 1

C11_PureToggle ==
  C11_Settled =>
    /\ rows = (turn - 1) % 2
    /\ isRegistered["card"] = (rows = 1)
    /\ (turn > 1 /\ Finished(finished) /\ finished[1].op = "register") =>
         finished[1].sent = <<"profiles.select",
                              IF rows = 1 THEN "registrations.insert"
                              ELSE "registrations.delete">>

C11_Witness ==
  /\ C11_Settled /\ turn = 4 /\ rows = 1 /\ isRegistered["card"]
  /\ Finished(finished) /\ finished[1].op = "register"

\* C12: in every reachable state of the workflow, whatever the interleaving
\* of register clicks, payment confirmations, status queries and answers, the
\* store (which does not enforce uniqueness) holds at most one registration
\* row of the (user, event) pair.
C12_AtMostOneRow == rows <= 1

\* C13: two register calls on the card, the second clicked before the first
\* has returned or after it, each toggle the registration: once both have
\* returned the store holds what it held before the first, no row.
C13_TwoCallsRestore == (C11_Settled /\ turn = 3) => rows = 0

\* C18: when a register call leaves the profile check for its mutation, the
\* branch it takes matches the store: it goes on to delete only if a row
\* exists, and to insert (on the page: to the payment QR) only if none does.
C18_Decides(call) ==
  /\ call.op = "register"
  /\ call.pc \in {"delete", "insert", "qr"}
  /\ CopiesIn(call, calls') > CopiesIn(call, calls)

C18_BranchMatchesStore ==
  [][\A call \in BagToSet(calls') :
       C18_Decides(call) => IF call.pc = "delete" THEN rows > 0 ELSE rows = 0]_vars

\* C14: every invocation that returned because one of its remote requests
\* failed (registration insert or delete, favorite insert or delete, the
\* registration, favorite and count queries, the event fetch) was caught in
\* its own handler and has shown a notification.
C14_FailureNotified ==
  (Finished(finished) /\ finished[1].pc = "caught") => finished[1].toasts # <<>>

\* C15: toggleFavorite changes isFavorite only when its insert or delete has
\* succeeded, to TRUE after the insert and to FALSE after the delete; a
\* failed request and a click without a user leave the flag as it was; the
\* invocation sends one favorites request, never a profile query, and opens
\* no payment step.
C15_Returns == finished' # finished /\ Finished(finished') /\ finished'[1].op = "toggleFavorite"

C15_Starts(call) ==
  call.op = "toggleFavorite" /\ CopiesIn(call, calls') > CopiesIn(call, calls)

C15_ToggleFavorite ==
  [][/\ C15_Returns =>
          /\ isFavorite' =
               IF finished'[1].pc = "done" /\ finished'[1].sent = <<"favorites.insert">>
               THEN TRUE
               ELSE IF finished'[1].pc = "done" /\ finished'[1].sent = <<"favorites.delete">>
               THEN FALSE
               ELSE isFavorite
          /\ (finished'[1].user = NoUser) => (finished'[1].sent = <<>> /\ calls' = calls)
          /\ showPaymentQR' = showPaymentQR
      /\ \A call \in BagToSet(calls') :
           C15_Starts(call) =>
             /\ isFavorite' = isFavorite
             /\ call.user # NoUser
             /\ call.sent \in {<<"favorites.insert">>, <<"favorites.delete">>}
             /\ showPaymentQR' = showPaymentQR]_vars

C15_Witness ==
  /\ Finished(finished) /\ finished[1].op = "toggleFavorite"
  /\ finished[1].pc = "done" /\ finished[1].sent = <<"favorites.insert">>
  /\ isFavorite /\ favRows = 1

\* C19: on the detail page every successful registration mutation (the
\* delete of an unregistration, the insert of a payment confirmation) starts
\* a count query, whose answer refreshes the displayed registration count.
C19_CountRefreshed ==
  [][(rows' # rows /\ Finished(finished') /\ finished'[1].comp = "page") =>
       \E call \in BagToSet(calls') :
          /\ call.op = "fetchRegistrationCount"
          /\ CopiesIn(call, calls') > CopiesIn(call, calls)]_vars

\* C16: when the checkout widget calls the completion callback, whatever
\* the response it hands over, the payment modal that opened it shows status
\* 'success' and a 2 s timer is pending; when that timer fires the panel's
\* cart is empty, the payment modal and the cart panel are closed and the
\* status is 'pending'.
C16_Completed == widget # 0 /\ widget' = 0 /\ widget \in payTimers' /\ mounted'[PanelStore]

C16_TimerFired == \E g \in payTimers : g \notin payTimers' /\ mounted'[PanelStore]

C16_PaymentTreatedAsSuccess ==
  [][/\ C16_Completed => (paymentStatus' = "success" /\ widget \in payTimers')
     /\ C16_TimerFired =>
          /\ items'[PanelStore] = <<>>
          /\ ~showPayment' /\ ~isCartOpen'
          /\ paymentStatus' = "pending"]_vars

\* C17: checkProfileComplete answers complete exactly when the select
\* returned a row whose name, phone, roll number and branch are all
\* non-empty; a failed select, a thrown exception and a missing row count as
\* incomplete.  handleRegister goes on to its mutation in the first case and
\* returns with 'Profile Incomplete' in the second.
C17_AllPresent(answer) ==
  /\ answer.status = "row"
  /\ \A v \in {answer.name, answer.phone, answer.rollno, answer.branch} :
       v \notin {Null, ""}

C17_GoesOn(call) ==
  /\ call.op = "register"
  /\ call.pc \in {"delete", "insert", "qr"}
  /\ CopiesIn(call, calls') > CopiesIn(call, calls)

C17_Refused ==
  /\ finished' # finished /\ Finished(finished')
  /\ finished'[1].op = "register" /\ finished'[1].sent = <<"profiles.select">>

C17_ProfileComplete ==
  [][/\ \A call \in BagToSet(calls') : C17_GoesOn(call) => C17_AllPresent(call.answer)
     /\ C17_Refused =>
          /\ ~C17_AllPresent(finished'[1].answer)
          /\ finished'[1].toasts = <<"Profile Incomplete">>
          /\ BagCardinality(calls') = BagCardinality(calls) - 1]_vars

C17_Witness ==
  /\ Finished(finished) /\ finished[1].op = "register"
  /\ finished[1].toasts = <<"Profile Incomplete">>
  /\ finished[1].answer = ProfileAnswer("row", "v", "v", Null, "v")
  /\ \E call \in Suspended : call.pc = "insert" /\ C17_AllPresent(call.answer)

\* C20 as stated: a mutation that empties the cart writes nothing, and the
\* snapshot it leaves under 'cart' is the cart of just before, the last
\* non-empty one.
C20_Emptied == Mutated(last') /\ items[last'.store] # <<>> /\ items'[last'.store] = <<>>

C21_Answers(call) == call \in Suspended /\ calls' = Resume(call)

C21_Opens == ~showPaymentQR /\ showPaymentQR'

C21_Cancels == showPaymentQR /\ ~showPaymentQR' /\ calls' = calls

C21_ConfirmFails ==
  \E call \in Suspended :
    /\ call.op = "confirmPayment"
    /\ C21_Answers(call)
    /\ finished' = Caught(call, <<"Error">>)

C21_PaymentGatesRegistration ==
  [][/\ C21_Opens =>
          /\ rows' = rows /\ isRegistered' = isRegistered
          /\ \E call \in Suspended :
               /\ call.op = "register" /\ call.comp = "page" /\ ~call.isReg
               /\ C21_Answers(call)
               /\ call.sent = <<"profiles.select">>
               /\ finished' = Done(call, <<>>)
     /\ C21_Cancels => rows' = rows /\ isRegistered' = isRegistered
     /\ rows' > rows =>
          /\ rows' = rows + 1
          /\ isRegistered'["page"]
          /\ ~showPaymentQR'
          /\ \E call \in Suspended :
               /\ call.op = "confirmPayment"
               /\ C21_Answers(call)
               /\ finished' = Done(call, <<"Registration Successful!">>)
     /\ C21_ConfirmFails =>
          /\ rows' = rows
          /\ isRegistered' = isRegistered
          /\ showPaymentQR' = showPaymentQR]_vars

\* the insert of confirmPayment has failed: the modal is still open, the page
\* still shows the user as unregistered and no row exists
C21_Witness ==
  /\ Finished(finished)
  /\ finished[1].op = "confirmPayment" /\ finished[1].pc = "caught"
  /\ showPaymentQR /\ ~isRegistered["page"] /\ rows = 0

\* C22: while a mutation request of handleRegister (the insert or the delete
\* of the registration row) has no response, the registering flag of the
\* control that issued it is true.
C22_BusyWhilePending ==
  \A call \in Suspended :
    (call.op = "register" /\ call.pc \in {"insert", "delete"}) => registering[call.comp]

\* C23: the components that use the cart hold the same item list: whenever
\* the event card and the cart panel are both mounted, their items are equal.
C23_OneSharedCart ==
  (mounted[CardStore] /\ mounted[PanelStore]) => items[CardStore] = items[PanelStore]

\* C29: on the event card, while no user is signed in the registered flag is
\* false, also when an answer to a request sent before the sign-out arrives.
C29_SignedOutNotRegistered == user = NoUser => ~isRegistered["card"]

\* C24: a cart operation whose snapshot write fails still puts its result in
\* the in-memory cart and leaves the stored snapshot as it was, and the
\* operation that follows a failed write has its usual effect on the cart:
\* the failure stops neither the operation nor the later ones.
C24_Result(call, its) ==
  CASE call.op = "addToCart" -> AddItems(its, call.id, call.price)
    [] call.op = "removeFromCart" -> RemoveItems(its, call.id)
    [] call.op \in {"updateQuantity", "handleQuantityChange"} -> UpdateItems(its, call.id, call.n)
    [] call.op = "clearCart" -> <<>>
    [] OTHER -> its

C24_WriteFailureSwallowed ==
  [][/\ (Mutated(last') /\ last'.write = "failed") =>
          /\ items'[last'.store] = C24_Result(last', items[last'.store])
          /\ items'[last'.store] # <<>>
          /\ storage' = storage
     /\ (Mutated(last') /\ last.write = "failed") =>
          /\ items'[last'.store] = C24_Result(last', items[last'.store])
          /\ last'.write = "ok" => storage' = Stringify(items'[last'.store])]_vars

\* a write has failed after an earlier one succeeded: the cart holds the new
\* list, the snapshot still the old one
C24_Witness ==
  /\ Mutated(last) /\ last.write = "failed"
  /\ storage.kind = "json"
  /\ Parse(storage) # items[last.store]
  /\ Len(items[last.store]) = 2

\* C25: a removeFromCart or updateQuantity call changes only the item it
\* names, relative to the cart at the moment it takes effect: the other
\* items, in their order, with their prices and quantities, are the same
\* before and after the step.
C25_OnlyTargetChanges ==
  [][(last'.op \in {"removeFromCart", "updateQuantity", "handleQuantityChange"}
        /\ Mutated(last')) =>
       FilterOut(items'[last'.store], last'.id) = FilterOut(items[last'.store], last'.id)]_vars

\* C26: add-to-cart actions made from different event cards all persist: no
\* step takes an event out of the stored snapshot (the cards offer no
\* removal), so a write made for one card keeps what another card stored.
C26_Saved(text) ==
  IF text.kind = "json" THEN {Parse(text)[i].id : i \in 1..Len(text.body)} ELSE {}

C26_AdditionsPersist == [][C26_Saved(storage) \subseteq C26_Saved(storage')]_vars

\* C27: in every cart store, at every moment, no two items have the same id.
C27_DistinctIds ==
  \A s \in Stores :
    \A i, j \in 1..Len(items[s]) : items[s][i].id = items[s][j].id => i = j

\* addToCart of an event already in a cart of two items has raised its
\* quantity instead of adding an item
C27_Witness ==
  /\ last.op = "addToCart"
  /\ Len(items[last.store]) = 2
  /\ \E i \in 1..2 : items[last.store][i].id = last.id /\ items[last.store][i].quantity = 2

\* C28: the payment modal opens only over a cart of at least one item; the
\* steps that open it, close it or dismiss the checkout widget leave the
\* cart items and the snapshot as they were and the payment status
\* 'pending'; a checkout step that changes the items is the firing of the
\* timer set by the completion callback.
C28_Opens == ~showPayment /\ showPayment'

C28_Closes ==
  showPayment /\ ~showPayment' /\ payTimers' = payTimers /\ mounted'[PanelStore]

C28_Dismisses ==
  widget # 0 /\ widget' = 0 /\ payTimers' = payTimers /\ mounted'[PanelStore]

C28_CartKept == items' = items /\ storage' = storage /\ paymentStatus' = "pending"

C28_CheckoutFrame ==
  [][/\ C28_Opens => (items[PanelStore] # <<>> /\ C28_CartKept)
     /\ C28_Closes => C28_CartKept
     /\ C28_Dismisses => C28_CartKept
     /\ (payVars' # payVars /\ items' # items /\ mounted'[PanelStore]) =>
          /\ C16_TimerFired
          /\ items'[PanelStore] = <<>>]_vars

\* the modal has been opened, closed and opened again, its script loaded,
\* over a cart that still holds its items
C28_Witness ==
  /\ showPayment /\ gen = 2 /\ razorpayLoaded /\ widget = 0
  /\ paymentStatus = "pending"
  /\ items[PanelStore] # <<>>
  /\ storage = Stringify(items[PanelStore])

\* C30: for a user who is not an admin (no user, or an email that does not
\* contain 'admin') the step that opens the admin panel, and the sign-in of
\* such a user while the panel is open, send no request, and no step sends
\* an insert, update or delete of a club or an event; a delete is sent only
\* by a step whose confirmation prompt was accepted.
C30_NotAdmin == user = NoUser \/ ~Includes(Email(user).text, AdminWord)

C30_Sends(ops) ==
  \E call \in BagToSet(adminCalls') :
    call.op \in ops /\ CopiesIn(call, adminCalls') > CopiesIn(call, adminCalls)

C30_OpensPanel == ~isAdminOpen /\ isAdminOpen'

C30_SignsIn == user = NoUser /\ user' # NoUser /\ isAdminOpen

C30_AdminOnly ==
  [][/\ (C30_OpensPanel /\ C30_NotAdmin) =>
          (adminCalls' = adminCalls /\ adminLoading' = adminLoading)
     /\ (C30_SignsIn /\ C30_NotAdmin') =>
          (adminCalls' = adminCalls /\ adminLoading' = adminLoading)
     /\ C30_NotAdmin => ~C30_Sends({"insert", "update", "delete"})
     /\ C30_Sends({"delete"}) => prompt' = "accepted"]_vars

\* an admin has deleted the club after accepting the prompt and signed out;
\* a user whose email only resembles 'admin' has the panel open and nothing
\* is in flight
C30_Witness ==
  /\ isAdminOpen /\ user = "u1"
  /\ prompt = "accepted" /\ remote["clubs"] = {}
  /\ adminCalls = EmptyBag

====
